---- MODULE Spec2Model ----
(***************************************************************************)
(* A model of src/discordbot.py: the three workflow controllers            *)
(* (ReminderBot, ManagerBot, JobTracker), their timers, their              *)
(* conversations with the user and their state files.                      *)
(*                                                                         *)
(* Time is the wall clock in minutes since 00:00 of day 0.  The clock      *)
(* jumps from one timer expiry to the next (Advance); between two expiries *)
(* nothing in the program runs.  The three controllers share no state      *)
(* (own object, own file, own prompts), so a behaviour follows the one     *)
(* controller that Init picks (controller); on_ready constructs it.        *)
(***************************************************************************)
EXTENDS Integers, Sequences, FiniteSets, TLC

(* ------------------------------------------------------------------ *)
(* Program constants                                                  *)
(* ------------------------------------------------------------------ *)
\* CONFIG["REMINDER_INTERVAL_HOURS"].  The shipped value is 3 (eight windows);
\* the model is instantiated with a divisor of 24 that gives two windows, and
\* every definition below is written in terms of this name.
REMINDER_INTERVAL_HOURS == 12
HOURS_PER_DAY == 24
MINUTES_PER_HOUR == 60
\* timeout=1800 seconds of bot.wait_for, in minutes
REPLY_TIMEOUT == 30
\* now.replace(hour=20, minute=0, second=0)
JOB_HOUR == 20

MinutesPerDay == HOURS_PER_DAY * MINUTES_PER_HOUR
IntervalMinutes == REMINDER_INTERVAL_HOURS * MINUTES_PER_HOUR

(* ------------------------------------------------------------------ *)
(* Bounds of the model                                                *)
(* ------------------------------------------------------------------ *)
\* the clock stops at 00:00 of day MaxDays
MaxDays == 2
\* messages that arrive: the user's replies and commands, other messages
MaxMessages == 3
\* failures the environment injects: a channel that does not resolve, an AI
\* call, a post or a reaction that fails, a kill of the process, a session
\* that is lost
MaxFaults == 1
\* command invocations of one action that may be in flight together
MaxManual == 1

Horizon == MaxDays * MinutesPerDay
\* the times of day the process is started at: 12:10, and for the JobTracker
\* (whose target is 20:00) 20:30 as well
StartTimes(c) == IF c = "job" THEN {730, 1230} ELSE {730}
\* the draws of random.randint(0, REMINDER_INTERVAL_HOURS * 60 - 1) followed:
\* the first and the last minute of a window
RandomMinutes == {0, IntervalMinutes - 1}
\* how long after the last event the user may act
UserDelays == {5}

Controllers == {"reminder", "manager", "job"}

(* ------------------------------------------------------------------ *)
(* Python values                                                      *)
(* ------------------------------------------------------------------ *)
None == [k |-> "none", n |-> 0, s |-> ""]
Str(x) == [k |-> "str", n |-> 0, s |-> x]

Day(t) == t \div MinutesPerDay
TimeOfDay(t) == t % MinutesPerDay
DayStart(t) == Day(t) * MinutesPerDay

\* datetime.strftime: the string is the clock value cut to what the format shows
strftime(t, fmt) ==
    IF fmt = "%Y-%m-%d" THEN [k |-> "str", n |-> Day(t), s |-> fmt]
    ELSE [k |-> "str", n |-> t, s |-> fmt]

DATETIME_FMT == "%Y-%m-%d %H:%M:%S"
DATE_FMT == "%Y-%m-%d"

Min(S) == CHOOSE t \in S : \A u \in S : t <= u

Max(S) == CHOOSE t \in S : \A u \in S : t >= u

(* ------------------------------------------------------------------ *)
(* JSON text: a sequence of tokens (commas and colons left out)       *)
(* ------------------------------------------------------------------ *)
P(c) == [k |-> "punct", n |-> 0, s |-> c]
Key(name) == [k |-> "key", n |-> 0, s |-> name]
PyInt(i) == [k |-> "int", n |-> i, s |-> ""]

\* json's encoder for a scalar: None -> null, an int -> a number, a str -> a string
JsonEncode(v) ==
    CASE v.k = "none" -> [k |-> "null", n |-> 0, s |-> ""]
      [] v.k = "int" -> [k |-> "num", n |-> v.n, s |-> ""]
      [] OTHER -> [k |-> "string", n |-> v.n, s |-> v.s]

\* a decoder that loses strings: what load_state would read if the values were
\* not written as JSON strings
JsonDecodeNoString(t) ==
    CASE t.k = "null" -> None
      [] t.k = "num" -> PyInt(t.n)
      [] OTHER -> None

\* json's decoder for a scalar
JsonDecode(t) ==
    CASE t.k = "null" -> None
      [] t.k = "num" -> PyInt(t.n)
      [] OTHER -> [k |-> "str", n |-> t.n, s |-> t.s]

RECURSIVE DumpMembers(_)
DumpMembers(pairs) ==
    IF pairs = <<>> THEN <<>>
    ELSE <<Key(pairs[1][1]), JsonEncode(pairs[1][2])>> \o DumpMembers(Tail(pairs))

\* json.dump of a dict of scalars
DumpDict(pairs) == <<P("{")>> \o DumpMembers(pairs) \o <<P("}")>>

RECURSIVE DumpItems(_)
DumpItems(items) ==
    IF items = <<>> THEN <<>>
    ELSE DumpDict(items[1]) \o DumpItems(Tail(items))

\* json.dump of {listKey: [dict, ...], scalarKey: scalar}; each dict is given
\* as the sequence of its (key, value) pairs
DumpListDoc(listKey, items, scalarKey, v) ==
    <<P("{"), Key(listKey), P("[")>> \o DumpItems(items)
        \o <<P("]"), Key(scalarKey), JsonEncode(v), P("}")>>

IsScalar(t) == t.k \in {"null", "num", "string"}
Members(t) == 1..((Len(t) - 2) \div 2)

\* the text is one complete JSON object of scalar members
FlatOk(t) ==
    /\ Len(t) >= 2
    /\ Len(t) % 2 = 0
    /\ t[1] = P("{")
    /\ t[Len(t)] = P("}")
    /\ \A i \in Members(t) : t[2 * i].k = "key" /\ IsScalar(t[2 * i + 1])

\* dict.get(key, default) on a parsed object of scalar members
DictGet(t, key, default) ==
    LET I == {i \in Members(t) : t[2 * i] = Key(key)}
    IN  IF I = {} THEN default ELSE JsonDecode(t[2 * Max(I) + 1])

\* where the list of a {listKey: [...], scalarKey: scalar} text closes (0: nowhere)
ListClose(t) ==
    LET C == {i \in 4..Len(t) : t[i] = P("]")}
    IN  IF C = {} THEN 0 ELSE Min(C)

\* the text is one complete JSON object {key: [dict of width members, ...], key: scalar}
ListDocOk(t, width) ==
    /\ Len(t) >= 7
    /\ t[1] = P("{")
    /\ t[2].k = "key"
    /\ t[3] = P("[")
    /\ LET c == ListClose(t)
           w == 2 * width + 2
       IN  /\ c > 0
           /\ (c - 4) % w = 0
           /\ \A j \in 0..((c - 4) \div w - 1) : FlatOk(SubSeq(t, 4 + j * w, 3 + (j + 1) * w))
           /\ Len(t) = c + 3
           /\ t[c + 1].k = "key"
           /\ IsScalar(t[c + 2])
           /\ t[c + 3] = P("}")

\* the dicts of the list member, as token sequences
ListItems(t, width) ==
    LET c == ListClose(t)
        w == 2 * width + 2
    IN  [j \in 1..((c - 4) \div w) |-> SubSeq(t, 4 + (j - 1) * w, 3 + j * w)]

\* dict.get(key, default) for the scalar member
ScalarGet(t, key, default) ==
    LET c == ListClose(t)
    IN  IF t[c + 1] = Key(key) THEN JsonDecode(t[c + 2]) ELSE default

(* ------------------------------------------------------------------ *)
(* State files                                                        *)
(* ------------------------------------------------------------------ *)
NoFile == [exists |-> FALSE, data |-> <<>>]
FileOf(tokens) == [exists |-> TRUE, data |-> tokens]

\* the points of a save at which the process is killed: half way through the
\* text, and after its last byte
CrashCuts(tokens) == {Len(tokens) \div 2, Len(tokens)}

(* ------------------------------------------------------------------ *)
(* State                                                              *)
(* ------------------------------------------------------------------ *)
VARIABLES
    now,          \* the wall clock
    weekday0,     \* datetime.weekday() of day 0
    controller,   \* the controller this behaviour follows
    constructed,  \* on_ready has constructed it (the module global is set)
    crashed,      \* the process was killed and is not started again yet
    file,         \* the controller's state file in DATA_DIR
    faults,       \* failures the environment may still inject
    msgs,         \* messages that may still arrive
    nextId,       \* the id the next posted message gets
    lastSave,     \* history: the last save_state (old file, new text, bytes written)
    lastLoad,     \* history: the last load_state (the file read, the state it left)
    rem,          \* ReminderBot: reminder_count, last_remind_time
    loop,         \* ReminderBot.reminder_loop: running, the next iteration
    remRun,       \* history: the last send_reminder
    mgr,          \* ManagerBot: conversations, last_check_time
    tasks,        \* ManagerBot.status_checks: window -> schedule_check task
    checks,       \* the check_status invocations, by runner
    fired,        \* history: window -> the times its timer started check_status
    strays,       \* the timers that live on outside the object: tasks that
                  \* status_checks lost, timers of an object that was replaced
    job,          \* JobTracker: applications, last_check_date
    jobTask,      \* JobTracker.job_task: the schedule_job_check task
    coll,         \* the check_applications invocations, by runner
    jobFired      \* history: the times the timer started check_applications

storeVars == <<file, crashed, lastSave>>
remVars == <<rem, loop, remRun>>
mgrVars == <<mgr, tasks, checks, fired, strays>>
jobVars == <<job, jobTask, coll, jobFired>>
vars == <<now, weekday0, controller, constructed, crashed, file, faults, msgs,
          nextId, lastSave, lastLoad, rem, loop, remRun, mgr, tasks, checks, fired,
          strays, job, jobTask, coll, jobFired>>

\* range(0, 24, CONFIG["REMINDER_INTERVAL_HOURS"])
Windows == {i \in 0..(HOURS_PER_DAY - 1) : i % REMINDER_INTERVAL_HOURS = 0}
\* the command invocations of check_status and check_applications
ManualRunners == {0 - i : i \in 1..MaxManual}
\* who runs a check_status: the timer task of a window, or a command
Runners == Windows \cup ManualRunners
\* who runs a check_applications: the timer task (0), or a command
JobRunners == {0} \cup ManualRunners

(* ------------------------------------------------------------------ *)
(* save_state / load_state                                            *)
(* ------------------------------------------------------------------ *)
ReminderDefault == [reminder_count |-> 0, last_remind_time |-> None]
ManagerDefault == [conversations |-> <<>>, last_check_time |-> None]
JobDefault == [applications |-> <<>>, last_check_date |-> None]

\* ReminderBot.save_state: the text json.dump writes
ReminderDump(st) ==
    DumpDict(<< <<"reminder_count", PyInt(st.reminder_count)>>,
                <<"last_remind_time", st.last_remind_time>> >>)

\* ReminderBot.load_state: the state afterwards, and whether it raised
ReminderLoad(cur, f) ==
    IF ~f.exists THEN [state |-> cur, raised |-> FALSE, how |-> "fresh"]
    ELSE IF ~FlatOk(f.data) THEN [state |-> cur, raised |-> FALSE, how |-> "error"]
    ELSE [state |-> [reminder_count |-> DictGet(f.data, "reminder_count", PyInt(0)).n,
                     last_remind_time |-> DictGet(f.data, "last_remind_time", None)],
          raised |-> FALSE, how |-> "loaded"]

ConversationPairs(c) ==
    << <<"timestamp", c.timestamp>>, <<"user", c.user>>,
       <<"user_status", c.user_status>>, <<"bot_response", c.bot_response>> >>

\* a save_state that writes the newest record only
ManagerDumpLast(st) ==
    DumpListDoc("conversations",
                [i \in 1..(IF st.conversations = <<>> THEN 0 ELSE 1) |->
                    ConversationPairs(st.conversations[Len(st.conversations)])],
                "last_check_time", st.last_check_time)

\* ManagerBot.save_state
ManagerDump(st) ==
    DumpListDoc("conversations",
                [i \in 1..Len(st.conversations) |-> ConversationPairs(st.conversations[i])],
                "last_check_time", st.last_check_time)

ConversationOf(t) ==
    [timestamp |-> DictGet(t, "timestamp", None), user |-> DictGet(t, "user", None),
     user_status |-> DictGet(t, "user_status", None),
     bot_response |-> DictGet(t, "bot_response", None)]

\* ManagerBot.load_state
ManagerLoad(cur, f) ==
    IF ~f.exists THEN [state |-> cur, raised |-> FALSE, how |-> "fresh"]
    ELSE IF ~ListDocOk(f.data, 4) THEN [state |-> cur, raised |-> FALSE, how |-> "error"]
    ELSE [state |->
            [conversations |->
                IF f.data[2] = Key("conversations")
                THEN [i \in DOMAIN ListItems(f.data, 4) |-> ConversationOf(ListItems(f.data, 4)[i])]
                ELSE <<>>,
             last_check_time |-> ScalarGet(f.data, "last_check_time", None)],
          raised |-> FALSE, how |-> "loaded"]

ApplicationPairs(a) ==
    << <<"company", a.company>>, <<"date", a.date>>,
       <<"status", a.status>>, <<"notes", a.notes>> >>

\* JobTracker.save_state
JobDump(st) ==
    DumpListDoc("applications",
                [i \in 1..Len(st.applications) |-> ApplicationPairs(st.applications[i])],
                "last_check_date", st.last_check_date)

ApplicationOf(t) ==
    [company |-> DictGet(t, "company", None), date |-> DictGet(t, "date", None),
     status |-> DictGet(t, "status", None), notes |-> DictGet(t, "notes", None)]

\* JobTracker.load_state
JobLoad(cur, f) ==
    IF ~f.exists THEN [state |-> cur, raised |-> FALSE, how |-> "fresh"]
    ELSE IF ~ListDocOk(f.data, 4) THEN [state |-> cur, raised |-> FALSE, how |-> "error"]
    ELSE [state |->
            [applications |->
                IF f.data[2] = Key("applications")
                THEN [i \in DOMAIN ListItems(f.data, 4) |-> ApplicationOf(ListItems(f.data, 4)[i])]
                ELSE <<>>,
             last_check_date |-> ScalarGet(f.data, "last_check_date", None)],
          raised |-> FALSE, how |-> "loaded"]

\* with open(data_file, 'w') as f: json.dump(..., f).  open truncates the file
\* and the text follows; a process killed on the way leaves what was written.
WriteFile(tokens, mem, left) ==
    \/ /\ file' = FileOf(tokens)
       /\ lastSave' = [done |-> TRUE, old |-> file, new |-> tokens,
                       cut |-> Len(tokens), mem |-> mem]
       /\ UNCHANGED crashed
       /\ faults' = left
    \/ /\ left > 0
       /\ \E cut \in CrashCuts(tokens) :
            /\ file' = FileOf(SubSeq(tokens, 1, cut))
            /\ lastSave' = [done |-> TRUE, old |-> file, new |-> tokens,
                            cut |-> cut, mem |-> mem]
       /\ crashed' = TRUE
       /\ faults' = left - 1

(* ------------------------------------------------------------------ *)
(* The environment                                                    *)
(* ------------------------------------------------------------------ *)
\* bot.get_channel(id): the channel, or None (found = FALSE)
Lookups == IF faults > 0 THEN BOOLEAN ELSE {TRUE}
\* the AI call returns a text ("ok") or fails ("error")
AiOutcomes == IF faults > 0 THEN {"ok", "error"} ELSE {"ok"}

\* the faults left after one that did (good) or did not go well
After(good) == IF good THEN faults ELSE faults - 1

Running == constructed /\ ~crashed

\* The user writes when the bot has just come up or while a prompt of the bot
\* is open, and then either at once or UserDelays later (see Advance).
UserIsThere ==
    \/ now = lastLoad.at
    \/ \E r \in Runners : checks[r].pc = "waiting"
    \/ \E r \in JobRunners : coll[r].pc \in {"waiting", "reacting"}

(* ------------------------------------------------------------------ *)
(* ReminderBot                                                        *)
(* ------------------------------------------------------------------ *)
\* datetime.isoweekday() in place of weekday(): Monday is 1, Sunday is 7
IsoWeekday(t) == ((weekday0 + Day(t)) % 7) + 1

\* current_time.weekday(): Monday is 0, Sunday is 6
Weekday(t) == (weekday0 + Day(t)) % 7

\* ReminderBot.get_time_of_day
get_time_of_day(t) ==
    LET hour == TimeOfDay(t) \div MINUTES_PER_HOUR
    IN  IF 5 <= hour /\ hour < 12 THEN "morning"
        ELSE IF 12 <= hour /\ hour < 17 THEN "afternoon"
        ELSE IF 17 <= hour /\ hour < 21 THEN "evening"
        ELSE "night"

\* the embed send_reminder builds
ReminderEmbed(t, count) ==
    [title |-> get_time_of_day(t),
     fields |-> <<"DSA Questions">>
                  \o (IF Weekday(t) >= 5 THEN <<"OS Concepts">> ELSE <<>>)
                  \o <<"Personal Projects", "Office Projects">>,
     footer |-> count]

NoEmbed == [title |-> "", fields |-> <<>>, footer |-> 0]
NoRun == [outcome |-> "none", embed |-> NoEmbed, manual |-> FALSE, at |-> 0]

\* await channel.send(embed=embed): it returns ("ok"), or it raises a
\* discord.HTTPException ("http"), or a connection error ("net")
Posts(found) == IF found /\ faults > 0 THEN {"ok", "http", "net"} ELSE {"ok"}

\* ReminderBot.send_reminder
send_reminder(found, post, manual) ==
    LET st == [reminder_count |-> rem.reminder_count + 1,
               last_remind_time |-> strftime(now, DATETIME_FMT)]
    IN  /\ rem' = st
        /\ IF ~found
           THEN /\ remRun' = [outcome |-> "skipped", embed |-> NoEmbed,
                              manual |-> manual, at |-> now]
                /\ faults' = faults - 1
                /\ UNCHANGED storeVars
           ELSE IF post # "ok"
           THEN /\ remRun' = [outcome |-> "raised", embed |-> NoEmbed,
                              manual |-> manual, at |-> now]
                /\ faults' = faults - 1
                /\ UNCHANGED storeVars
           ELSE /\ remRun' = [outcome |-> "sent",
                              embed |-> ReminderEmbed(now, st.reminder_count),
                              manual |-> manual, at |-> now]
                /\ WriteFile(ReminderDump(st), st, faults)

\* discord.ext.tasks.Loop after an iteration: the next one is due an interval
\* later; an exception of the kinds the loop retries on (connection errors)
\* runs the iteration again after a short backoff; any other exception ends
\* the loop
LoopAfter(l, found, post) ==
    IF found /\ post = "http" THEN [l EXCEPT !.running = FALSE]
    ELSE IF found /\ post = "net" THEN [l EXCEPT !.next = now]
    ELSE [l EXCEPT !.next = now + IntervalMinutes]

\* one iteration of reminder_loop (tasks.loop(hours=REMINDER_INTERVAL_HOURS))
ReminderLoopFire ==
    /\ Running
    /\ controller = "reminder"
    /\ loop.running
    /\ loop.next = now
    /\ \E found \in Lookups :
        \E post \in Posts(found) :
            /\ send_reminder(found, post, FALSE)
            /\ loop' = LoopAfter(loop, found, post)
    /\ UNCHANGED <<msgs, now, weekday0, controller, constructed, nextId, lastLoad,
                   mgrVars, jobVars>>

\* remind_command: !remind
remind_command ==
    /\ Running
    /\ controller = "reminder"
    /\ msgs > 0
    /\ UserIsThere
    /\ msgs' = msgs - 1
    /\ \E found \in Lookups :
        \E post \in Posts(found) : send_reminder(found, post, TRUE)
    /\ UNCHANGED <<now, weekday0, controller, constructed, nextId, lastLoad, loop,
                   mgrVars, jobVars>>

\* on_ready: reminder_bot = ReminderBot(bot), in a process that has just been
\* started (for the first time, or again after it was killed).  __init__ starts
\* reminder_loop (its first iteration runs once __init__ has returned) and
\* loads the state.
OnReadyReminder ==
    /\ ~constructed \/ crashed
    /\ controller = "reminder"
    /\ LET ld == ReminderLoad(ReminderDefault, file)
       IN  /\ rem' = ld.state
           /\ lastLoad' = [done |-> TRUE, how |-> ld.how, raised |-> ld.raised,
                           at |-> now, restart |-> crashed, file |-> file,
                           state |-> ld.state]
           /\ constructed' = ~ld.raised
    /\ loop' = [running |-> TRUE, next |-> now]
    /\ remRun' = NoRun
    /\ strays' = {}
    /\ crashed' = FALSE
    /\ UNCHANGED <<now, weekday0, controller, file, lastSave, faults, msgs,
                   nextId, mgr, tasks, checks, fired, jobVars>>

NextReminder == ReminderLoopFire \/ remind_command \/ OnReadyReminder

(* ------------------------------------------------------------------ *)
(* Messages                                                           *)
(* ------------------------------------------------------------------ *)
\* what the user writes
Contents == IF controller = "job" THEN {"A", "B", "Done"} ELSE {"A"}
TERMINAL_KEYWORDS == {"done", "finished", "complete", "end"}
\* str.lower
lower(c) == IF c = "Done" THEN "done" ELSE c

\* the channel of the controller, and any other channel
ChannelOf(c) == IF c = "manager" THEN "status" ELSE IF c = "job" THEN "jobs" ELSE "reminders"

\* the prompts a reply may reference: those posted so far, and one more id
\* (a message that is no prompt); 0 is a message that is no reply
References == 0..nextId

\* the messages that may arrive: a user's reply, and the messages that differ
\* from one in a single respect (no reference, another channel, a bot's)
Messages ==
    {[channel |-> ChannelOf(controller), bot |-> FALSE, ref |-> p, content |-> c] :
        p \in References, c \in Contents}
    \cup {[channel |-> "other", bot |-> FALSE, ref |-> p, content |-> "Done"] :
        p \in References \ {0}}
    \cup {[channel |-> ChannelOf(controller), bot |-> TRUE, ref |-> p, content |-> "Done"] :
        p \in References \ {0}}

NoMessage == [channel |-> "", bot |-> FALSE, ref |-> 0, content |-> ""]

(* ------------------------------------------------------------------ *)
(* ManagerBot                                                         *)
(* ------------------------------------------------------------------ *)
NoTask == [pc |-> "none", delay |-> 0, wake |-> 0]
NoCheck == [pc |-> "idle", outcome |-> "none", prompt |-> 0, deadline |-> 0,
            started |-> 0, ended |-> 0, appended |-> 0, posted |-> <<>>,
            wrote |-> FALSE, ai |-> "none", reply |-> NoMessage]

STATUS_FALLBACK == "I'm having trouble connecting to my AI services."
AI_TEXT == "response.text"

\* get_gemini_response with an except block that returns the error's text
GeminiErrorText(outcome) == IF outcome = "ok" THEN AI_TEXT ELSE "str(e)"

\* ManagerBot.get_gemini_response: the try block, or the except block
get_gemini_response(outcome) == IF outcome = "ok" THEN AI_TEXT ELSE STATUS_FALLBACK

\* the draws of one schedule_random_checks
OffsetMaps == [Windows -> RandomMinutes]

\* check_time of window i in schedule_random_checks
CheckTime(i, minutes) ==
    LET check_time == DayStart(now) + i * MINUTES_PER_HOUR + minutes
    IN  IF check_time < now THEN check_time + MinutesPerDay ELSE check_time

\* ManagerBot.schedule_random_checks: status_checks afterwards
NewTasks(f) ==
    [i \in Windows |->
        [pc |-> "sleep1", delay |-> CheckTime(i, f[i]) - now, wake |-> CheckTime(i, f[i])]]

\* a schedule_random_checks without the loop that cancels
NoSlots == {}

\* for task in self.status_checks.values(): task.cancel() -- the slots whose
\* task is cancelled: status_checks has one entry per window
CancelledSlots == Windows

\* task.cancel() of a task that is inside check_status, waiting for the reply
Cancelled(c) ==
    IF c.pc = "waiting"
    THEN [c EXCEPT !.pc = "done", !.outcome = "cancelled", !.ended = now]
    ELSE c

\* the invocations after schedule_random_checks cancelled every timer task
AfterCancel(cs) ==
    [r \in Runners |->
        IF r \in CancelledSlots /\ tasks[r].pc = "check" THEN Cancelled(cs[r]) ELSE cs[r]]

\* the tasks of status_checks that live on when the task of window w has
\* called schedule_random_checks (the caller ends when the call returns)
Uncancelled(w) ==
    {[slot |-> v, task |-> tasks[v]] :
        v \in {x \in Windows \ CancelledSlots :
                  x # w /\ tasks[x].pc \in {"sleep1", "check", "sleep2"}}}

\* ManagerBot.check_status up to the wait for the reply
StartCheck(r, found) ==
    IF ~found
    THEN [NoCheck EXCEPT !.pc = "done", !.outcome = "skipped", !.started = now,
                         !.ended = now]
    ELSE [NoCheck EXCEPT !.pc = "waiting", !.prompt = nextId, !.started = now,
                         !.deadline = now + REPLY_TIMEOUT, !.posted = <<"prompt">>]

\* schedule_check that ends when check_status has returned
AfterCheckReturn(t) == [t EXCEPT !.pc = "none"]

\* schedule_check after check_status returned: asyncio.sleep(24 * 60 * 60 - seconds_delay)
AfterCheck(t) == [t EXCEPT !.pc = "sleep2", !.wake = now + (MinutesPerDay - t.delay)]

\* the timer task of runner r, once r's check_status has returned
TasksAfter(r) ==
    IF r \in Windows /\ tasks[r].pc = "check"
    THEN [tasks EXCEPT ![r] = AfterCheck(tasks[r])]
    ELSE tasks

\* schedule_check: the first sleep is over, check_status starts
TaskFire(w) ==
    /\ Running
    /\ controller = "manager"
    /\ tasks[w].pc = "sleep1"
    /\ tasks[w].wake = now
    /\ \E found \in Lookups :
        /\ checks' = [checks EXCEPT ![w] = StartCheck(w, found)]
        /\ nextId' = IF found THEN nextId + 1 ELSE nextId
        /\ tasks' = [tasks EXCEPT ![w] =
                        IF found THEN [@ EXCEPT !.pc = "check"] ELSE AfterCheck(@)]
        /\ faults' = After(found)
    /\ mgr' = [mgr EXCEPT !.last_check_time = strftime(now, DATETIME_FMT)]
    /\ fired' = [fired EXCEPT ![w] = Append(@, now)]
    /\ UNCHANGED <<msgs, now, weekday0, controller, constructed, storeVars, lastLoad,
                   strays, remVars, jobVars>>

\* status_command: !status
status_command(r) ==
    /\ Running
    /\ controller = "manager"
    /\ msgs > 0
    /\ UserIsThere
    /\ msgs' = msgs - 1
    /\ r \in ManualRunners
    /\ checks[r].pc # "waiting"
    /\ \E found \in Lookups :
        /\ checks' = [checks EXCEPT ![r] = StartCheck(r, found)]
        /\ nextId' = IF found THEN nextId + 1 ELSE nextId
        /\ faults' = After(found)
    /\ mgr' = [mgr EXCEPT !.last_check_time = strftime(now, DATETIME_FMT)]
    /\ UNCHANGED <<now, weekday0, controller, constructed, storeVars, lastLoad,
                   tasks, fired, strays, remVars, jobVars>>

\* a check(message) that takes every reply in the channel, whatever message it
\* references
StatusCheckAnyReply(r, m) ==
    /\ m.channel = ChannelOf("manager")
    /\ ~m.bot
    /\ m.ref # 0

\* check(message) of check_status, for the invocation of runner r
StatusCheckAccepts(r, m) ==
    /\ m.channel = ChannelOf("manager")
    /\ ~m.bot
    /\ m.ref # 0
    /\ m.ref = checks[r].prompt

\* the invocations whose bot.wait_for the message completes
StatusListeners(m) == {r \in Runners : checks[r].pc = "waiting" /\ StatusCheckAccepts(r, m)}

\* check_status after the reply: the record, the feedback, save_state
Replied(c, m, outcome) ==
    [c EXCEPT !.pc = "done", !.outcome = "done", !.ended = now, !.appended = 1,
              !.posted = Append(@, get_gemini_response(outcome)), !.wrote = TRUE,
              !.ai = outcome, !.reply = m]

ConversationRecord(m, outcome) ==
    [timestamp |-> mgr.last_check_time, user |-> Str("user"),
     user_status |-> Str(m.content), bot_response |-> Str(get_gemini_response(outcome))]

\* a message arrives while the ManagerBot runs
StatusMessage(m) ==
    /\ Running
    /\ controller = "manager"
    /\ msgs > 0
    /\ UserIsThere
    /\ msgs' = msgs - 1
    /\ IF StatusListeners(m) = {}
       THEN UNCHANGED <<mgr, tasks, checks, storeVars, faults>>
       ELSE \E r \in StatusListeners(m), outcome \in AiOutcomes :
            LET st == [mgr EXCEPT !.conversations = Append(@, ConversationRecord(m, outcome))]
            IN  /\ mgr' = st
                /\ checks' = [checks EXCEPT ![r] = Replied(@, m, outcome)]
                /\ tasks' = TasksAfter(r)
                /\ WriteFile(ManagerDump(st), st, After(outcome = "ok"))
    /\ UNCHANGED <<now, weekday0, controller, constructed, nextId, lastLoad, fired, strays,
                   remVars, jobVars>>

\* asyncio.TimeoutError in check_status
StatusTimeout(r) ==
    /\ Running
    /\ controller = "manager"
    /\ checks[r].pc = "waiting"
    /\ checks[r].deadline = now
    /\ checks' = [checks EXCEPT ![r] =
                    [@ EXCEPT !.pc = "done", !.outcome = "timedout", !.ended = now,
                              !.posted = Append(@, "No status update received.")]]
    /\ tasks' = TasksAfter(r)
    /\ UNCHANGED <<now, weekday0, controller, constructed, storeVars, faults, msgs, nextId,
                   lastLoad, mgr, fired, strays, remVars, jobVars>>

\* schedule_check: the second sleep is over, schedule_random_checks()
TaskReschedule(w) ==
    /\ Running
    /\ controller = "manager"
    /\ tasks[w].pc = "sleep2"
    /\ tasks[w].wake = now
    /\ \E f \in OffsetMaps : tasks' = NewTasks(f)
    /\ checks' = AfterCancel(checks)
    /\ strays' = strays \cup Uncancelled(w)
    /\ UNCHANGED <<now, weekday0, controller, constructed, storeVars, faults, msgs, nextId,
                   lastLoad, mgr, fired, remVars, jobVars>>

\* on_ready: manager_bot = ManagerBot(bot)
OnReadyManager ==
    /\ ~constructed \/ crashed
    /\ controller = "manager"
    /\ LET ld == ManagerLoad(ManagerDefault, file)
       IN  /\ mgr' = ld.state
           /\ lastLoad' = [done |-> TRUE, how |-> ld.how, raised |-> ld.raised,
                           at |-> now, restart |-> crashed, file |-> file,
                           state |-> ld.state]
           /\ constructed' = ~ld.raised
    /\ \E f \in OffsetMaps : tasks' = NewTasks(f)
    /\ checks' = [r \in Runners |-> NoCheck]
    /\ fired' = [w \in Windows |-> <<>>]
    /\ strays' = {}
    /\ crashed' = FALSE
    /\ UNCHANGED <<now, weekday0, controller, file, lastSave, faults, msgs,
                   nextId, remVars, jobVars>>

NextManager ==
    \/ \E w \in Windows : TaskFire(w) \/ TaskReschedule(w)
    \/ \E r \in Runners : status_command(r) \/ StatusTimeout(r)
    \/ \E m \in Messages : StatusMessage(m)
    \/ OnReadyManager

(* ------------------------------------------------------------------ *)
(* JobTracker                                                         *)
(* ------------------------------------------------------------------ *)
NoColl == [pc |-> "idle", outcome |-> "none", prompt |-> 0, deadline |-> 0,
           started |-> 0, ended |-> 0, jobs_applied |-> <<>>, appended |-> 0,
           posted |-> <<>>, wrote |-> FALSE, ai |-> "none", replies |-> <<>>,
           arrived |-> <<>>]

JOB_FALLBACK == "Great job applying to these positions!"

\* JobTracker.get_application_analysis: the try block, or the except block
get_application_analysis(outcome) == IF outcome = "ok" THEN AI_TEXT ELSE JOB_FALLBACK

\* target_time of JobTracker.schedule_daily_check
TargetTime ==
    LET target_time == DayStart(now) + JOB_HOUR * MINUTES_PER_HOUR
    IN  IF now > target_time THEN target_time + MinutesPerDay ELSE target_time

\* JobTracker.schedule_daily_check: job_task afterwards
NewJobTask == [pc |-> "sleep1", delay |-> TargetTime - now, wake |-> TargetTime]

\* JobTracker.check_applications up to the first wait for a reply
StartColl(found) ==
    IF ~found
    THEN [NoColl EXCEPT !.pc = "done", !.outcome = "skipped", !.started = now,
                        !.ended = now]
    ELSE [NoColl EXCEPT !.pc = "waiting", !.prompt = nextId, !.started = now,
                        !.deadline = now + REPLY_TIMEOUT, !.posted = <<"prompt">>]

\* schedule_job_check after check_applications returned: asyncio.sleep(24 * 60 * 60)
AfterColl(t) == [t EXCEPT !.pc = "sleep2", !.wake = now + MinutesPerDay]

JobTaskAfter(r) == IF r = 0 /\ jobTask.pc = "check" THEN AfterColl(jobTask) ELSE jobTask

\* an exception leaves check_applications: the timer task that awaited it ends
JobTaskFailed(r) ==
    IF r = 0 /\ jobTask.pc = "check" THEN [jobTask EXCEPT !.pc = "failed"] ELSE jobTask

\* schedule_job_check: the first sleep is over, check_applications starts
JobFire ==
    /\ Running
    /\ controller = "job"
    /\ jobTask.pc = "sleep1"
    /\ jobTask.wake = now
    /\ \E found \in Lookups :
        /\ coll' = [coll EXCEPT ![0] = StartColl(found)]
        /\ nextId' = IF found THEN nextId + 1 ELSE nextId
        /\ jobTask' = IF found THEN [jobTask EXCEPT !.pc = "check"] ELSE AfterColl(jobTask)
        /\ faults' = After(found)
    /\ job' = [job EXCEPT !.last_check_date = strftime(now, DATE_FMT)]
    /\ jobFired' = Append(jobFired, now)
    /\ UNCHANGED <<msgs, now, weekday0, controller, constructed, storeVars, lastLoad,
                   remVars, mgrVars>>

\* jobs_command: !jobs
jobs_command(r) ==
    /\ Running
    /\ controller = "job"
    /\ msgs > 0
    /\ UserIsThere
    /\ msgs' = msgs - 1
    /\ r \in ManualRunners
    /\ coll[r].pc \notin {"waiting", "reacting"}
    /\ \E found \in Lookups :
        /\ coll' = [coll EXCEPT ![r] = StartColl(found)]
        /\ nextId' = IF found THEN nextId + 1 ELSE nextId
        /\ faults' = After(found)
    /\ job' = [job EXCEPT !.last_check_date = strftime(now, DATE_FMT)]
    /\ UNCHANGED <<now, weekday0, controller, constructed, storeVars, lastLoad,
                   jobTask, jobFired, remVars, mgrVars>>

\* check(message) of check_applications, for the invocation of runner r
JobCheckAccepts(r, m) ==
    /\ m.channel = ChannelOf("job")
    /\ ~m.bot
    /\ m.ref # 0
    /\ m.ref = coll[r].prompt

\* the invocations whose bot.wait_for the message completes
JobListeners(m) == {r \in JobRunners : coll[r].pc = "waiting" /\ JobCheckAccepts(r, m)}

\* response.content.lower() in ['done', 'finished', 'complete', 'end']
IsTerminal(content) == lower(content) \in TERMINAL_KEYWORDS

ApplicationRecord(company) ==
    [company |-> Str(company), date |-> job.last_check_date,
     status |-> Str("Applied"), notes |-> Str("")]

\* an assignment in place of the extend: self.applications = new_applications
Replaced(st, jobs) ==
    [st EXCEPT !.applications = [i \in 1..Len(jobs) |-> ApplicationRecord(jobs[i])]]

\* self.applications.extend(new_applications)
Extended(st, jobs) ==
    [st EXCEPT !.applications = @ \o [i \in 1..Len(jobs) |-> ApplicationRecord(jobs[i])]]

\* check_applications after the loop: the notice or the analysis
Finished(c, how, outcome) ==
    [c EXCEPT !.pc = "done", !.outcome = how, !.ended = now,
              !.appended = Len(c.jobs_applied),
              !.posted = @ \o (IF how = "timedout" THEN <<"No response received for 30 minutes.">> ELSE <<>>)
                           \o (IF c.jobs_applied = <<>> THEN <<"No Applications Today">>
                               ELSE <<get_application_analysis(outcome)>>),
              !.wrote = TRUE,
              !.ai = IF c.jobs_applied = <<>> THEN "none" ELSE outcome]

\* the AI is called only for a batch that is not empty
AnalysisOutcomes(c) == IF c.jobs_applied = <<>> THEN {"ok"} ELSE AiOutcomes

\* the end of check_applications for runner r, after a keyword or a timeout
FinishColl(r, c, how) ==
    \E outcome \in AnalysisOutcomes(c) :
        LET st == Extended(job, c.jobs_applied)
        IN  /\ job' = st
            /\ coll' = [coll EXCEPT ![r] = Finished(c, how, outcome)]
            /\ jobTask' = JobTaskAfter(r)
            /\ WriteFile(JobDump(st), st, After(outcome = "ok"))

\* the message is a reply to the prompt of a collection that has not ended
RepliesTo(c, m) ==
    /\ c.pc \in {"waiting", "reacting"}
    /\ m.channel = "jobs" /\ ~m.bot /\ m.ref = c.prompt

\* history: the replies to each running collection's prompt, as they arrive
Arrived(cs, m) ==
    [r \in JobRunners |->
        IF RepliesTo(cs[r], m) THEN [cs[r] EXCEPT !.arrived = Append(@, m.content)] ELSE cs[r]]

\* a message arrives while the JobTracker runs
JobMessage(m) ==
    /\ Running
    /\ controller = "job"
    /\ msgs > 0
    /\ UserIsThere
    /\ msgs' = msgs - 1
    /\ IF JobListeners(m) = {}
       THEN /\ coll' = Arrived(coll, m)
            /\ UNCHANGED <<job, jobTask, storeVars, faults>>
       ELSE \E r \in JobListeners(m) :
            LET c == [Arrived(coll, m)[r] EXCEPT !.replies = Append(@, m)]
            IN  IF IsTerminal(m.content)
                THEN FinishColl(r, c, "done")
                ELSE /\ coll' = [coll EXCEPT ![r] =
                                    [c EXCEPT !.pc = "reacting",
                                              !.jobs_applied = Append(@, m.content)]]
                     /\ UNCHANGED <<job, jobTask, storeVars, faults>>
    /\ UNCHANGED <<now, weekday0, controller, constructed, nextId, lastLoad, jobFired,
                   remVars, mgrVars>>

\* await response.add_reaction(...) returns, or raises
Reaction(r, ok) ==
    /\ Running
    /\ controller = "job"
    /\ coll[r].pc = "reacting"
    /\ ok \/ faults > 0
    /\ faults' = After(ok)
    /\ IF ok
       THEN /\ coll' = [coll EXCEPT ![r] =
                          [@ EXCEPT !.pc = "waiting", !.deadline = now + REPLY_TIMEOUT]]
            /\ UNCHANGED jobTask
       ELSE /\ coll' = [coll EXCEPT ![r] =
                          [@ EXCEPT !.pc = "done", !.outcome = "raised", !.ended = now]]
            /\ jobTask' = JobTaskFailed(r)
    /\ UNCHANGED <<now, weekday0, controller, constructed, storeVars, msgs, nextId,
                   lastLoad, job, jobFired, remVars, mgrVars>>

\* asyncio.TimeoutError in check_applications
JobTimeout(r) ==
    /\ Running
    /\ controller = "job"
    /\ coll[r].pc = "waiting"
    /\ coll[r].deadline = now
    /\ FinishColl(r, coll[r], "timedout")
    /\ UNCHANGED <<now, weekday0, controller, constructed, msgs, nextId, lastLoad,
                   jobFired, remVars, mgrVars>>

\* schedule_job_check: the second sleep is over, schedule_daily_check()
JobReschedule ==
    /\ Running
    /\ controller = "job"
    /\ jobTask.pc = "sleep2"
    /\ jobTask.wake = now
    /\ jobTask' = NewJobTask
    /\ UNCHANGED <<now, weekday0, controller, constructed, storeVars, faults, msgs, nextId,
                   lastLoad, job, coll, jobFired, remVars, mgrVars>>

\* on_ready: job_tracker = JobTracker(bot)
OnReadyJob ==
    /\ ~constructed \/ crashed
    /\ controller = "job"
    /\ LET ld == JobLoad(JobDefault, file)
       IN  /\ job' = ld.state
           /\ lastLoad' = [done |-> TRUE, how |-> ld.how, raised |-> ld.raised,
                           at |-> now, restart |-> crashed, file |-> file,
                           state |-> ld.state]
           /\ constructed' = ~ld.raised
    /\ jobTask' = NewJobTask
    /\ coll' = [r \in JobRunners |-> NoColl]
    /\ jobFired' = <<>>
    /\ strays' = {}
    /\ crashed' = FALSE
    /\ UNCHANGED <<now, weekday0, controller, file, lastSave, faults, msgs,
                   nextId, remVars, mgr, tasks, checks, fired>>

NextJob ==
    \/ JobFire
    \/ JobReschedule
    \/ \E r \in JobRunners : jobs_command(r) \/ JobTimeout(r)
    \/ \E r \in JobRunners, ok \in BOOLEAN : Reaction(r, ok)
    \/ \E m \in Messages : JobMessage(m)
    \/ OnReadyJob

(* ------------------------------------------------------------------ *)
(* on_ready in a process that is running                              *)
(* ------------------------------------------------------------------ *)
\* The gateway delivers on_ready again after a session that could not be
\* resumed.  on_ready constructs the three objects anew and binds the module
\* globals to them; nothing stops the timers of the objects it replaces.  The
\* model goes on with the new object and keeps the timers of the old one in
\* strays; what the old object does from then on is not followed.

\* the running reminder_loop of the ReminderBot that is replaced
OldLoops == IF loop.running THEN {[slot |-> 0, task |-> loop]} ELSE {}

\* the live timer tasks of the ManagerBot that is replaced
OldTasks ==
    {[slot |-> w, task |-> tasks[w]] :
        w \in {x \in Windows : tasks[x].pc \in {"sleep1", "check", "sleep2"}}}

\* the live job_task of the JobTracker that is replaced
OldJobTasks ==
    IF jobTask.pc \in {"sleep1", "check", "sleep2"}
    THEN {[slot |-> 0, task |-> jobTask]}
    ELSE {}

\* on_ready again: reminder_bot = ReminderBot(bot)
OnReadyAgainReminder ==
    /\ Running
    /\ controller = "reminder"
    /\ faults > 0
    /\ faults' = faults - 1
    /\ LET ld == ReminderLoad(ReminderDefault, file)
       IN  /\ rem' = ld.state
           /\ lastLoad' = [done |-> TRUE, how |-> ld.how, raised |-> ld.raised,
                           at |-> now, restart |-> FALSE, file |-> file,
                           state |-> ld.state]
    /\ loop' = [running |-> TRUE, next |-> now]
    /\ remRun' = NoRun
    /\ strays' = strays \cup OldLoops
    /\ UNCHANGED <<now, weekday0, controller, constructed, storeVars, msgs, nextId,
                   mgr, tasks, checks, fired, jobVars>>

\* on_ready again: manager_bot = ManagerBot(bot)
OnReadyAgainManager ==
    /\ Running
    /\ controller = "manager"
    /\ faults > 0
    /\ faults' = faults - 1
    /\ LET ld == ManagerLoad(ManagerDefault, file)
       IN  /\ mgr' = ld.state
           /\ lastLoad' = [done |-> TRUE, how |-> ld.how, raised |-> ld.raised,
                           at |-> now, restart |-> FALSE, file |-> file,
                           state |-> ld.state]
    /\ \E f \in OffsetMaps : tasks' = NewTasks(f)
    /\ checks' = [r \in Runners |-> NoCheck]
    /\ fired' = [w \in Windows |-> <<>>]
    /\ strays' = strays \cup OldTasks
    /\ UNCHANGED <<now, weekday0, controller, constructed, storeVars, msgs, nextId,
                   remVars, jobVars>>

\* on_ready again: job_tracker = JobTracker(bot)
OnReadyAgainJob ==
    /\ Running
    /\ controller = "job"
    /\ faults > 0
    /\ faults' = faults - 1
    /\ LET ld == JobLoad(JobDefault, file)
       IN  /\ job' = ld.state
           /\ lastLoad' = [done |-> TRUE, how |-> ld.how, raised |-> ld.raised,
                           at |-> now, restart |-> FALSE, file |-> file,
                           state |-> ld.state]
    /\ jobTask' = NewJobTask
    /\ coll' = [r \in JobRunners |-> NoColl]
    /\ jobFired' = <<>>
    /\ strays' = strays \cup OldJobTasks
    /\ UNCHANGED <<now, weekday0, controller, constructed, storeVars, msgs, nextId,
                   remVars, mgr, tasks, checks, fired>>

(* ------------------------------------------------------------------ *)
(* The clock                                                          *)
(* ------------------------------------------------------------------ *)
\* the expiry times of the timers that are armed
Timers ==
    (IF controller = "reminder" /\ loop.running THEN {loop.next} ELSE {})
    \cup {tasks[w].wake : w \in {x \in Windows : tasks[x].pc \in {"sleep1", "sleep2"}}}
    \cup {checks[r].deadline : r \in {x \in Runners : checks[x].pc = "waiting"}}
    \cup (IF jobTask.pc \in {"sleep1", "sleep2"} THEN {jobTask.wake} ELSE {})
    \cup {coll[r].deadline : r \in {x \in JobRunners : coll[x].pc = "waiting"}}

\* somebody waits for a reply the user may still send
UserMayAct ==
    /\ msgs > 0
    /\ \/ \E r \in Runners : checks[r].pc = "waiting" /\ checks[r].deadline = now + REPLY_TIMEOUT
       \/ \E r \in JobRunners : coll[r].pc = "waiting" /\ coll[r].deadline = now + REPLY_TIMEOUT

\* time passes up to the next expiry, or up to the user's next move
Advance ==
    /\ Running
    /\ Timers # {}
    /\ \A t \in Timers : t > now
    /\ \A r \in JobRunners : coll[r].pc # "reacting"
    /\ now < Horizon
    /\ \/ now' = IF Min(Timers) > Horizon THEN Horizon ELSE Min(Timers)
       \/ /\ UserMayAct
          /\ \E d \in UserDelays : now + d < Min(Timers) /\ now + d <= Horizon /\ now' = now + d
    /\ UNCHANGED <<weekday0, controller, constructed, storeVars, faults, msgs, nextId, lastLoad,
                   remVars, mgrVars, jobVars>>

(* ------------------------------------------------------------------ *)
(* The specifications                                                 *)
(* ------------------------------------------------------------------ *)
Init ==
    /\ controller \in Controllers
    /\ now \in StartTimes(controller)
    /\ weekday0 \in (IF controller = "reminder" THEN 0..6 ELSE {0})
    /\ constructed = FALSE
    /\ crashed = FALSE
    /\ file = NoFile
    /\ faults = MaxFaults
    /\ msgs = MaxMessages
    /\ nextId = 1
    /\ lastSave = [done |-> FALSE, old |-> NoFile, new |-> <<>>, cut |-> 0, mem |-> None]
    /\ lastLoad = [done |-> FALSE, how |-> "", raised |-> FALSE, at |-> 0, restart |-> FALSE,
                   file |-> NoFile, state |-> None]
    /\ rem = ReminderDefault
    /\ loop = [running |-> FALSE, next |-> 0]
    /\ remRun = NoRun
    /\ mgr = ManagerDefault
    /\ tasks = [w \in Windows |-> NoTask]
    /\ checks = [r \in Runners |-> NoCheck]
    /\ fired = [w \in Windows |-> <<>>]
    /\ strays = {}
    /\ job = JobDefault
    /\ jobTask = NoTask
    /\ coll = [r \in JobRunners |-> NoColl]
    /\ jobFired = <<>>

Next == NextReminder \/ NextManager \/ NextJob \/ Advance

Spec == Init /\ [][Next]_vars

\* the behaviours of one controller
InitReminder == Init /\ controller = "reminder"
StepReminder == NextReminder \/ Advance
SpecReminder == InitReminder /\ [][StepReminder]_vars

InitManager == Init /\ controller = "manager"
StepManager == NextManager \/ Advance
SpecManager == InitManager /\ [][StepManager]_vars

InitJob == Init /\ controller = "job"
StepJob == NextJob \/ Advance
SpecJob == InitJob /\ [][StepJob]_vars

\* the behaviours of the timers when on_ready may be delivered again and the
\* user writes nothing
StepReconnect ==
    \/ OnReadyReminder \/ OnReadyManager \/ OnReadyJob
    \/ OnReadyAgainReminder \/ OnReadyAgainManager \/ OnReadyAgainJob
    \/ ReminderLoopFire
    \/ \E w \in Windows : TaskFire(w) \/ TaskReschedule(w)
    \/ \E r \in Runners : StatusTimeout(r)
    \/ JobFire \/ JobReschedule
    \/ \E r \in JobRunners : JobTimeout(r)
    \/ Advance
SpecReconnect == Init /\ [][StepReconnect]_vars

(* ------------------------------------------------------------------ *)
(* Properties of the schedulers                                       *)
(* ------------------------------------------------------------------ *)
\* the time of day of t lies in window i: [i, i + REMINDER_INTERVAL_HOURS) hours
InWindow(i, t) ==
    /\ i * MINUTES_PER_HOUR <= TimeOfDay(t)
    /\ TimeOfDay(t) < (i + REMINDER_INTERVAL_HOURS) * MINUTES_PER_HOUR

\* the firings of window i's timer on calendar day d
FiringsOn(i, d) == {k \in 1..Len(fired[i]) : Day(fired[i][k]) = d}

\* the calendar days the running process has been up for, from 00:00 to 24:00
FullDays ==
    {d \in 0..(MaxDays - 1) :
        lastLoad.at <= d * MinutesPerDay /\ now >= (d + 1) * MinutesPerDay}

\* C1: the ManagerBot's scheduler starts check_status once per window in every
\* calendar day: every firing's time of day lies inside its window, no window
\* fires twice on one day, and on every day the process was up for from 00:00
\* to 24:00 every window has fired.
C1_OncePerWindowPerDay ==
    (controller = "manager" /\ constructed) =>
        \A i \in Windows :
            /\ \A k \in 1..Len(fired[i]) : InWindow(i, fired[i][k])
            /\ \A d \in 0..(MaxDays - 1) : Cardinality(FiringsOn(i, d)) <= 1
            /\ \A d \in FullDays : Cardinality(FiringsOn(i, d)) = 1

\* the next 20:00 that has not passed at t
NextTarget(t) ==
    IF TimeOfDay(t) > JOB_HOUR * MINUTES_PER_HOUR
    THEN DayStart(t) + MinutesPerDay + JOB_HOUR * MINUTES_PER_HOUR
    ELSE DayStart(t) + JOB_HOUR * MINUTES_PER_HOUR

\* C2: the JobTracker's scheduler fires check_applications at 20:00 of every
\* day: the k-th firing since the start is at the first 20:00 that had not
\* passed at the start plus k - 1 days, and whenever the timer is armed it is
\* armed for the 20:00 that follows the last firing by one day, whatever time
\* the collections took.
C2_DailyAtTwenty ==
    (controller = "job" /\ constructed) =>
        /\ \A k \in 1..Len(jobFired) :
              jobFired[k] = NextTarget(lastLoad.at) + (k - 1) * MinutesPerDay
        /\ jobTask.pc = "sleep1" =>
              jobTask.wake = NextTarget(lastLoad.at) + Len(jobFired) * MinutesPerDay

(* ------------------------------------------------------------------ *)
(* Properties of the conversations                                    *)
(* ------------------------------------------------------------------ *)
\* the items of s before its first terminal keyword
RECURSIVE BeforeTerminal(_)
BeforeTerminal(s) ==
    IF s = <<>> THEN <<>>
    ELSE IF IsTerminal(Head(s)) THEN <<>>
    ELSE <<Head(s)>> \o BeforeTerminal(Tail(s))

Range(s) == {s[i] : i \in DOMAIN s}

\* C3: when check_applications has ended by a keyword or by a timeout, its
\* accumulator is the sequence, in arrival order, of the replies to its prompt
\* that arrived before the first terminal keyword; one record per accumulated
\* item was appended; an empty accumulator posted the notice.
C3_Accumulator ==
    \A r \in JobRunners :
        (coll[r].pc = "done" /\ coll[r].outcome \in {"done", "timedout"}) =>
            /\ coll[r].jobs_applied = BeforeTerminal(coll[r].arrived)
            /\ coll[r].appended = Len(coll[r].jobs_applied)
            /\ coll[r].jobs_applied = <<>> => "No Applications Today" \in Range(coll[r].posted)

\* C4: a check_status whose prompt was posted ends either Done, on a reply to
\* its prompt, with one record appended, the feedback posted and the state
\* saved, or TimedOut, without a reply, with no record, the notice posted and
\* nothing saved.
C4_StatusExchange ==
    \A r \in Runners :
        (checks[r].pc = "done" /\ checks[r].prompt # 0) =>
            \/ /\ checks[r].outcome = "done"
               /\ checks[r].reply.ref = checks[r].prompt
               /\ checks[r].appended = 1
               /\ Len(checks[r].posted) = 2
               /\ checks[r].wrote
            \/ /\ checks[r].outcome = "timedout"
               /\ checks[r].reply = NoMessage
               /\ checks[r].appended = 0
               /\ checks[r].posted = <<"prompt", "No status update received.">>
               /\ ~checks[r].wrote

\* the message is a user's reply, in channel ch, to the message with id p
Correlated(m, ch, p) == m.channel = ch /\ ~m.bot /\ m.ref # 0 /\ m.ref = p

\* the contents of a sequence of messages
ContentsOf(ms) == [i \in DOMAIN ms |-> ms[i].content]

\* C5: only a user's reply, in the workflow's channel, to the prompt of a
\* collection is counted by it: the reply check_status took, and every reply
\* check_applications took as a turn or as the terminal signal, references the
\* collection's own prompt; a record is appended only for such a reply, the
\* accumulator holds only such replies, and a keyword ends the collection only
\* in such a reply.
C5_OnlyCorrelatedCounted ==
    /\ \A r \in Runners :
          /\ checks[r].reply # NoMessage =>
                Correlated(checks[r].reply, "status", checks[r].prompt)
          /\ checks[r].appended > 0 => checks[r].reply # NoMessage
    /\ \A r \in JobRunners :
          /\ \A i \in DOMAIN coll[r].replies :
                Correlated(coll[r].replies[i], "jobs", coll[r].prompt)
          /\ coll[r].jobs_applied = BeforeTerminal(ContentsOf(coll[r].replies))
          /\ coll[r].outcome = "done" =>
                /\ coll[r].replies # <<>>
                /\ IsTerminal(coll[r].replies[Len(coll[r].replies)].content)

\* two check_status invocations wait together, a reply to the later prompt is
\* taken by its own invocation, and the earlier one goes on waiting
C5_Witness ==
    \E r1 \in Runners, r2 \in Runners :
        /\ checks[r1].outcome = "done"
        /\ checks[r1].reply.ref = checks[r1].prompt
        /\ checks[r2].pc = "waiting"
        /\ checks[r2].prompt # 0
        /\ checks[r2].prompt < checks[r1].prompt

(* ------------------------------------------------------------------ *)
(* Properties of the state files                                      *)
(* ------------------------------------------------------------------ *)
\* C6: whenever send_reminder has returned (and the process lives), the state
\* file holds the reminder_count and last_remind_time of the object.
C6_PersistedAfterEveryFiring ==
    (controller = "reminder" /\ remRun.outcome \in {"sent", "skipped"} /\ ~crashed) =>
        /\ file.exists
        /\ ReminderLoad(ReminderDefault, file).state = rem

\* C7: after a kill of the process during save_state the file is the old file
\* or the complete new text, and the load_state of the restart reads it.
C7_SaveAtomic ==
    /\ crashed => (file = lastSave.old \/ file = FileOf(lastSave.new))
    /\ lastLoad.restart => lastLoad.how # "error"

\* the default state of the controller followed
DefaultState ==
    IF controller = "reminder" THEN ReminderDefault
    ELSE IF controller = "manager" THEN ManagerDefault
    ELSE JobDefault

\* C8: load_state never raises; on a missing file it leaves the defaults; on
\* the complete text of a save_state it restores the state that was saved; on
\* a text cut short it leaves the defaults.
C8_RoundTrip ==
    lastLoad.done =>
        /\ ~lastLoad.raised
        /\ ~lastLoad.file.exists => lastLoad.state = DefaultState
        /\ (lastSave.done /\ lastLoad.file = FileOf(lastSave.new)) =>
              lastLoad.state = lastSave.mem
        /\ (/\ lastSave.done
            /\ lastSave.cut < Len(lastSave.new)
            /\ lastLoad.file = FileOf(SubSeq(lastSave.new, 1, lastSave.cut))) =>
              lastLoad.state = DefaultState

\* the process was restarted and load_state restored a saved state with records
C8_Witness ==
    /\ lastLoad.restart
    /\ lastLoad.file = FileOf(lastSave.new)
    /\ controller = "job"
    /\ lastLoad.state = lastSave.mem
    /\ lastLoad.state.applications # <<>>
    /\ job = lastSave.mem

(* ------------------------------------------------------------------ *)
(* Properties of the failure paths                                    *)
(* ------------------------------------------------------------------ *)
\* C9: when the AI call failed, check_status ended Done with its record
\* appended (the fallback as bot_response), the fallback posted as feedback and
\* the state saved with the record; check_applications ended with one record
\* per accumulated item appended, the fallback posted as analysis and the state
\* saved; neither ended by an exception.
C9_FallbackOnAiFailure ==
    /\ \A r \in Runners :
          checks[r].ai = "error" =>
              /\ checks[r].outcome = "done"
              /\ checks[r].appended = 1
              /\ checks[r].posted = <<"prompt", STATUS_FALLBACK>>
              /\ checks[r].wrote
              /\ lastSave.done
              /\ \E i \in DOMAIN lastSave.mem.conversations :
                    /\ lastSave.mem.conversations[i].bot_response = Str(STATUS_FALLBACK)
                    /\ lastSave.mem.conversations[i].user_status = Str(checks[r].reply.content)
    /\ \A r \in JobRunners :
          coll[r].ai = "error" =>
              /\ coll[r].outcome \in {"done", "timedout"}
              /\ coll[r].jobs_applied # <<>>
              /\ coll[r].appended = Len(coll[r].jobs_applied)
              /\ coll[r].posted[Len(coll[r].posted)] = JOB_FALLBACK
              /\ coll[r].wrote
              /\ lastSave.done
              /\ \A k \in DOMAIN coll[r].jobs_applied :
                    \E i \in DOMAIN lastSave.mem.applications :
                        lastSave.mem.applications[i].company = Str(coll[r].jobs_applied[k])

\* a check_status whose AI call failed has ended
C9_Witness ==
    \E r \in Runners :
        /\ checks[r].ai = "error"
        /\ checks[r].pc = "done"
        /\ checks[r].reply.ref = checks[r].prompt

\* C10: a cycle whose channel did not resolve posts nothing, appends nothing and
\* saves nothing, and leaves the scheduler armed: reminder_loop goes on with its
\* next iteration due, the window's timer task sleeps towards its next firing,
\* job_task sleeps towards its next firing.
C10_SkipKeepsSchedulerArmed ==
    /\ remRun.outcome = "skipped" =>
          /\ remRun.embed = NoEmbed
          /\ ~remRun.manual =>
                /\ loop.running
                /\ loop.next = remRun.at + IntervalMinutes
          /\ (remRun.manual /\ loop.running) => loop.next >= now
    /\ \A r \in Runners :
          checks[r].outcome = "skipped" =>
              /\ checks[r].posted = <<>>
              /\ checks[r].appended = 0
              /\ ~checks[r].wrote
              /\ r \in Windows =>
                    /\ tasks[r].pc \in {"sleep1", "sleep2"}
                    /\ tasks[r].wake >= now
    /\ \A r \in JobRunners :
          coll[r].outcome = "skipped" =>
              /\ coll[r].posted = <<>>
              /\ coll[r].appended = 0
              /\ ~coll[r].wrote
              /\ r = 0 =>
                    /\ jobTask.pc \in {"sleep1", "sleep2"}
                    /\ jobTask.wake >= now

\* a scheduled check_status was skipped and its window is scheduled again
C10_Witness ==
    \E w \in Windows :
        /\ checks[w].outcome = "skipped"
        /\ tasks[w].pc = "sleep1"
        /\ tasks[w].wake > checks[w].started

(* ------------------------------------------------------------------ *)
(* Properties of reminder_loop                                        *)
(* ------------------------------------------------------------------ *)
\* C11: when send_reminder has raised in an iteration of reminder_loop, the
\* loop is still running and its next iteration is due no later than one
\* interval after the failed one.
C11_LoopSurvivesFailure ==
    (controller = "reminder" /\ remRun.outcome = "raised" /\ ~remRun.manual) =>
        /\ loop.running
        /\ loop.next <= remRun.at + IntervalMinutes

\* C12: every iteration of reminder_loop runs a whole number of intervals
\* after the start of the loop, and the first one a full interval after it.
C12_FirstFiringAfterInterval ==
    (controller = "reminder" /\ remRun.outcome # "none" /\ ~remRun.manual) =>
        /\ remRun.at >= lastLoad.at + IntervalMinutes
        /\ (remRun.at - lastLoad.at) % IntervalMinutes = 0

(* ------------------------------------------------------------------ *)
(* Properties of the record sequences                                 *)
(* ------------------------------------------------------------------ *)
IsPrefix(a, b) == Len(a) <= Len(b) /\ SubSeq(b, 1, Len(a)) = a

\* the check_status invocations that take their reply in this step
StatusEnding == {r \in Runners : checks[r].outcome # "done" /\ checks'[r].outcome = "done"}

\* the check_applications invocations that leave their loop in this step
JobEnding ==
    {r \in JobRunners :
        /\ coll[r].pc # "done"
        /\ coll'[r].pc = "done"
        /\ coll'[r].outcome \in {"done", "timedout"}}

\* C13: in every step of a running process the conversations and the
\* applications before the step are a prefix of those after it; the
\* conversations grow by one record when a check_status takes its reply and by
\* none otherwise; the applications grow, when a check_applications leaves its
\* loop, by one record per item of its accumulator, in order, and by none
\* otherwise.
C13_AppendOnly ==
    [][(constructed /\ ~crashed) =>
          /\ IsPrefix(mgr.conversations, mgr'.conversations)
          /\ Len(mgr'.conversations) =
                Len(mgr.conversations) + (IF StatusEnding = {} THEN 0 ELSE 1)
          /\ IsPrefix(job.applications, job'.applications)
          /\ JobEnding = {} => job'.applications = job.applications
          /\ \A r \in JobEnding :
                /\ Len(job'.applications) =
                      Len(job.applications) + Len(coll'[r].jobs_applied)
                /\ \A k \in DOMAIN coll'[r].jobs_applied :
                      job'.applications[Len(job.applications) + k].company =
                          Str(coll'[r].jobs_applied[k])]_vars

\* two collections of one process run have each appended their records
C13_Witness ==
    /\ ~lastLoad.restart
    /\ \E r1 \in JobRunners, r2 \in JobRunners :
          /\ r1 # r2
          /\ coll[r1].appended >= 1
          /\ coll[r2].appended >= 1
          /\ Len(job.applications) = coll[r1].appended + coll[r2].appended

\* C14: the reminder send_reminder posts has the field "OS Concepts" exactly
\* when the day it is posted on is a Saturday or a Sunday, between "DSA
\* Questions" and the two project fields, which it has on every day.
C14_WeekendField ==
    (controller = "reminder" /\ remRun.outcome = "sent") =>
        LET dayOfWeek == (weekday0 + remRun.at \div (HOURS_PER_DAY * MINUTES_PER_HOUR)) % 7
        IN  IF dayOfWeek \in {5, 6}
            THEN remRun.embed.fields =
                    <<"DSA Questions", "OS Concepts", "Personal Projects", "Office Projects">>
            ELSE remRun.embed.fields =
                    <<"DSA Questions", "Personal Projects", "Office Projects">>

\* a reminder posted on a Saturday by a process started on the Friday
C14_Witness ==
    /\ controller = "reminder"
    /\ weekday0 = 4
    /\ remRun.outcome = "sent"
    /\ remRun.at \div (HOURS_PER_DAY * MINUTES_PER_HOUR) = 1
    /\ Len(remRun.embed.fields) = 4

(* ------------------------------------------------------------------ *)
(* Properties of the timer tasks                                      *)
(* ------------------------------------------------------------------ *)
\* C15: a check_status that a window's timer task started and that has posted
\* its prompt is never ended by the cancel of schedule_random_checks: it ends
\* on its reply or on its own timeout.
C15_RescheduleSparesWaitingCheck ==
    \A w \in Windows :
        (checks[w].prompt # 0 /\ checks[w].pc = "done") =>
            checks[w].outcome \in {"done", "timedout"}

\* the windows whose scheduled check_status is in progress
InProgress == {w \in Windows : tasks[w].pc = "check" /\ checks[w].pc = "waiting"}

\* C17: of one scheduler at most one scheduled firing is in progress: no two
\* windows' check_status wait at the same time, and while one waits no window
\* task has re-armed the scheduler since it started.
C17_FiringsSequential ==
    /\ Cardinality(InProgress) <= 1
    /\ \A w \in InProgress :
          \A v \in Windows : tasks[v].pc = "sleep1" => tasks[v].wake - tasks[v].delay <= checks[w].started

\* C18: when a scheduled check_applications has ended with an exception, the
\* daily timer is armed: job_task sleeps towards a next firing.
C18_ExceptionKeepsTimerArmed ==
    (controller = "job" /\ coll[0].outcome = "raised") =>
        /\ jobTask.pc \in {"sleep1", "sleep2"}
        /\ jobTask.wake >= now

\* C19: a collection never ends because add_reaction failed: it ends on a
\* keyword or on a timeout, with one record appended per accumulated item and
\* the state saved.
C19_ReactionFailureIgnored ==
    \A r \in JobRunners :
        (coll[r].pc = "done" /\ coll[r].prompt # 0) =>
            /\ coll[r].outcome \in {"done", "timedout"}
            /\ coll[r].appended = Len(coll[r].jobs_applied)
            /\ coll[r].wrote

\* C20: in a collection that no exception has ended, every reply to the
\* prompt that arrived since the prompt was posted has been processed: the
\* contents of the replies the loop took are the contents of the replies that
\* arrived.
C20_NoReplyMissed ==
    \A r \in JobRunners :
        coll[r].outcome # "raised" => ContentsOf(coll[r].replies) = coll[r].arrived

\* the window timer tasks that have not ended: those of status_checks, and
\* those that live on outside it
LiveSlots == {w \in Windows : tasks[w].pc \in {"sleep1", "check", "sleep2"}}
LiveTasks == Cardinality(LiveSlots) + Cardinality(strays)

\* the live tasks of window slot w
LiveOf(w) ==
    Cardinality({s \in strays : s.slot = w}) + (IF w \in LiveSlots THEN 1 ELSE 0)

\* schedule_random_checks has just returned: every task of status_checks was
\* created now and has not run yet
JustScheduled ==
    \A w \in Windows : tasks[w].pc = "sleep1" /\ tasks[w].wake - tasks[w].delay = now

\* the live job_task: one or none
LiveJobTasks == IF jobTask.pc \in {"sleep1", "check", "sleep2"} THEN 1 ELSE 0

\* C16: a ManagerBot has at most one live timer task per window slot and so
\* never more live timer tasks than windows, and exactly one per window when
\* schedule_random_checks has just returned; a JobTracker has at most one live
\* job_task, and exactly one when schedule_daily_check has just returned.
C16_OneTaskPerSlot ==
    /\ (controller = "manager" /\ constructed) =>
          /\ \A w \in Windows : LiveOf(w) <= 1
          /\ LiveTasks <= Cardinality(Windows)
          /\ JustScheduled => LiveTasks = Cardinality(Windows)
    /\ (controller = "job" /\ constructed) =>
          /\ LiveJobTasks <= 1
          /\ (jobTask.pc = "sleep1" /\ jobTask.wake - jobTask.delay = now) => LiveJobTasks = 1

\* a window task has called schedule_random_checks again while the task of
\* another window was inside check_status
C16_Witness ==
    /\ controller = "manager"
    /\ now > lastLoad.at
    /\ JustScheduled
    /\ LiveTasks = Cardinality(Windows)
    /\ \E w \in Windows : checks[w].outcome = "cancelled"

(* ------------------------------------------------------------------ *)
(* Properties of overlapping invocations                              *)
(* ------------------------------------------------------------------ *)
\* the check_status invocations that have posted their prompt and not ended
StatusInFlight == {r \in Runners : checks[r].pc = "waiting"}

\* the check_applications invocations that have posted their prompt and not ended
JobInFlight == {r \in JobRunners : coll[r].pc \in {"waiting", "reacting"}}

\* C21: a command and a scheduled firing of the same action never run
\* together: while the check_status (check_applications) a command started is
\* in flight, no other check_status (check_applications) of the object is.
C21_ManualAndScheduledSerialised ==
    /\ \A m \in ManualRunners :
          m \in StatusInFlight => StatusInFlight = {m}
    /\ \A m \in ManualRunners :
          m \in JobInFlight => JobInFlight = {m}

\* the invocation has returned on its reply, its keyword or its timeout
Completed(c) == c.pc = "done" /\ c.outcome \in {"done", "timedout"}

\* invocation b posted its prompt after a did and before a returned
Overlap(a, b) == a.prompt # 0 /\ a.prompt < b.prompt /\ b.started < a.ended

\* the pairs of invocations that overlapped and have both returned
StatusPairs ==
    {p \in Runners \X Runners :
        /\ Completed(checks[p[1]]) /\ Completed(checks[p[2]])
        /\ Overlap(checks[p[1]], checks[p[2]])}

JobPairs ==
    {p \in JobRunners \X JobRunners :
        /\ Completed(coll[p[1]]) /\ Completed(coll[p[2]])
        /\ Overlap(coll[p[1]], coll[p[2]])}

\* the records in which invocation c's reply may stand in seq
StatusRecords(seq, c) ==
    IF c.outcome # "done" THEN {0}
    ELSE {i \in DOMAIN seq :
            /\ seq[i].user_status = Str(c.reply.content)
            /\ seq[i].bot_response = Str(get_gemini_response(c.ai))}

\* the offsets at which collection c's batch may stand in seq
JobRecords(seq, c) ==
    {k \in 0..(Len(seq) - Len(c.jobs_applied)) :
        \A i \in DOMAIN c.jobs_applied : seq[k + i].company = Str(c.jobs_applied[i])}

\* seq holds the record of a and the record of b, in two places
HoldsBothStatus(seq, a, b) ==
    \E i \in StatusRecords(seq, a), j \in StatusRecords(seq, b) : i = 0 \/ i # j

\* seq holds the batch of a and the batch of b, side by side
HoldsBothJob(seq, a, b) ==
    \E i \in JobRecords(seq, a), j \in JobRecords(seq, b) :
        i + Len(a.jobs_applied) <= j \/ j + Len(b.jobs_applied) <= i

\* the JSON text of a list of records under its key, up to the closing bracket
ListText(key, items) == <<P("{"), Key(key), P("[")>> \o DumpItems(items) \o <<P("]")>>

\* the state file lists the records, all of them and in their order
FileLists(key, items) ==
    items # <<>> =>
        /\ file.exists
        /\ Len(file.data) = Len(ListText(key, items)) + 3
        /\ SubSeq(file.data, 1, Len(file.data) - 3) = ListText(key, items)

\* the records of both invocations of every pair are in memory, and the file
\* lists the records that are in memory
BothKept ==
    /\ \A p \in StatusPairs :
          HoldsBothStatus(mgr.conversations, checks[p[1]], checks[p[2]])
    /\ StatusPairs # {} =>
          FileLists("conversations",
                    [i \in DOMAIN mgr.conversations |->
                        ConversationPairs(mgr.conversations[i])])
    /\ \A p \in JobPairs :
          HoldsBothJob(job.applications, coll[p[1]], coll[p[2]])
    /\ JobPairs # {} =>
          FileLists("applications",
                    [i \in DOMAIN job.applications |->
                        ApplicationPairs(job.applications[i])])

\* Both invocations work on the one list of the object (append, extend) and
\* save_state dumps that whole list, so the save of the invocation that returns
\* first writes the records the other has appended so far, and the save of the
\* one that returns last writes all of them.
\* C22: in a process that runs on, when two invocations of one action overlapped
\* and both have returned normally, the sequence in memory and the state file
\* hold the records of both; and the step in which an invocation returns adds
\* its records once, so each of them is there exactly once.
C22_NoRecordLost ==
    [][(constructed /\ ~crashed /\ ~crashed') =>
          /\ BothKept'
          /\ Len(mgr'.conversations) = Len(mgr.conversations) + Cardinality(StatusEnding)
          /\ \A r \in JobEnding :
                Len(job'.applications) = Len(job.applications) + Len(coll'[r].jobs_applied)]_vars

\* a command's check_status started while a window's was waiting, both took
\* their reply, and the file holds the two records
C22_Witness ==
    /\ constructed /\ ~crashed
    /\ \E p \in StatusPairs :
          /\ checks[p[1]].outcome = "done"
          /\ checks[p[2]].outcome = "done"
          /\ p[1] \in Windows
          /\ p[2] \in ManualRunners
    /\ Len(mgr.conversations) >= 2
    /\ file = FileOf(ManagerDump(mgr))

\* C23: the record a check_status appends when it takes its reply carries the
\* time that check_status started at, and the records a check_applications
\* appends carry the date its run started on, whatever other invocation has
\* started since.
C23_OwnTimestamp ==
    [][(constructed /\ ~crashed) =>
          /\ \A r \in StatusEnding :
                mgr'.conversations[Len(mgr'.conversations)].timestamp =
                    strftime(checks[r].started, DATETIME_FMT)
          /\ \A r \in JobEnding :
                \A k \in DOMAIN coll'[r].jobs_applied :
                    job'.applications[Len(job.applications) + k].date =
                        strftime(coll[r].started, DATE_FMT)]_vars

(* ------------------------------------------------------------------ *)
(* Properties of on_ready                                             *)
(* ------------------------------------------------------------------ *)
\* the reminder loops that run: the one of reminder_bot, and those of replaced objects
RunningLoops == (IF loop.running THEN 1 ELSE 0) + Cardinality(strays)

\* C24: however often on_ready is delivered in a process, at most one
\* reminder loop runs, every Manager window has at most one live timer task,
\* and at most one JobTracker timer task is live.
C24_OneTimerAfterReady ==
    constructed =>
        /\ controller = "reminder" => RunningLoops <= 1
        /\ controller = "manager" => \A w \in Windows : LiveOf(w) <= 1
        /\ controller = "job" => LiveJobTasks + Cardinality(strays) <= 1

\* the reminder_count that is persisted: that of the state the last save_state
\* wrote or, when the process was killed inside that save_state, that of the
\* file as it was before (0 when nothing was ever saved)
PersistedCounts ==
    IF ~lastSave.done THEN {0}
    ELSE {lastSave.mem.reminder_count}
         \cup (IF lastSave.cut < Len(lastSave.new)
               THEN {ReminderLoad(ReminderDefault, lastSave.old).state.reminder_count}
               ELSE {})

\* C25: the first send_reminder of a process runs on the loaded state: it is
\* numbered one more than the persisted reminder_count.
C25_FirstReminderContinuesCount ==
    [][(/\ controller = "reminder"
        /\ constructed /\ ~crashed
        /\ remRun.outcome = "none"
        /\ remRun'.outcome # "none") =>
            \E c \in PersistedCounts : rem'.reminder_count = c + 1]_vars

====
